---- MODULE Spec2Model ----
(***************************************************************************)
(* The vault credentials provider of internal/providers/vault.go:         *)
(* vaultConfigProvider with Retrieve, IsExpired, provide, fillUpSecrets    *)
(* and initSecrets, called from several goroutines.                        *)
(*                                                                         *)
(* Every goroutine is a small state machine (pc).  A step is the code      *)
(* between two synchronisation points: the call, the acquisition of the    *)
(* embedded sync.RWMutex, and the return of the remote read together with  *)
(* everything Retrieve does with it before the deferred Unlock.            *)
(***************************************************************************)
EXTENDS Integers, FiniteSets, Sequences, TLC

\* ------------------------------------------------------------------ bounds
NumProcs == 2      \* goroutines calling the provider
MaxCalls == 2      \* calls the goroutines make in all
MaxTime == 2       \* the clock runs from 0 to MaxTime
TTL == 1           \* cfg.expiredTime, in clock ticks

Procs == 1..NumProcs
NoProc == 0

\* ------------------------------------------------------------ configuration
\* The names a configuration can give to the two secrets; the two may be
\* the same name (the tests configure "" for both).
KeyNames == {"access", "secret"}
\* A key of the vault mapping that the provider does not track.
OtherKey == "other"
DataKeys == KeyNames \cup {OtherKey}

VaultProviderName == "VaultConfigProvider"

\* ------------------------------------------------------------------- errors
\* A Go error value is modelled by its message and the key it names.
Err(msg, key) == [msg |-> msg, key |-> key]
NoErr == Err("nil", "")
ErrSecrets == Err("There are no secrets we need for or they have wrong type", "")
ErrConnectionToVault == Err("Cannot get into vault", "")
\* The error the vault client reports for a failed read.
SourceErr == Err("connection refused", "")

\* --------------------------------------------------------- values of a secret
\* A value of map[string]interface{}: a string, or something else.
Str(s) == [type |-> "string", val |-> s]
NonStr == [type |-> "int", val |-> "0"]
NoData == [k \in {} |-> NonStr]

\* The vault holds one of two generations of the secrets; the string under
\* a key tells the key and the generation.
Gens == {"old", "new"}
ValueOf(k, g) ==
    IF k = "access" THEN (IF g = "old" THEN "AKIA1" ELSE "AKIA2")
    ELSE IF k = "secret" THEN (IF g = "old" THEN "SECRET1" ELSE "SECRET2")
    ELSE "x"

\* The mappings a read can return: any subset of the configurable names,
\* each with its string of one generation or with a non-string, and two
\* mappings that hold a key the provider does not track, one with every
\* configurable name and one with none.
Mappings ==
    UNION {{[k \in D |-> IF k \in S THEN Str(ValueOf(k, g)) ELSE NonStr] :
                S \in SUBSET D, g \in Gens} : D \in SUBSET KeyNames}
    \cup {[k \in DataKeys |-> Str(ValueOf(k, "old"))],
          [k \in {OtherKey} |-> Str(ValueOf(k, "old"))]}

\* ------------------------------------------------------------ pure functions
\* initSecrets: the two configured names, each with the empty string.
initSecrets(c) == [k \in {c.accessVaultKey, c.secretVaultKey} |-> ""]

\* c.secrets[k] of a Go map: the zero value for a key that is not there.
Lookup(sec, k) == IF k \in DOMAIN sec THEN sec[k] ELSE ""

BadKeysNoType(sec, data) == {k \in DOMAIN sec : k \notin DOMAIN data}

\* The tracked keys the first loop of fillUpSecrets rejects.
BadKeys(sec, data) ==
    {k \in DOMAIN sec : k \notin DOMAIN data \/ data[k].type # "string"}

\* The error fillUpSecrets makes for a rejected key.
KeyError(data, k) ==
    IF k \notin DOMAIN data
    THEN Err("There is no secret with key", k)
    ELSE Err("Secret has wrong type key", k)

\* The errors fillUpSecrets can return for data: the range over a Go map
\* visits the keys in an unspecified order, so any rejected key can be the
\* one that is reported.  Empty when fillUpSecrets returns nil.
fillUpErrors(sec, data) == {KeyError(data, k) : k \in BadKeys(sec, data)}

fillUpSecretsNoCopy(sec, data) == sec

fillUpSecretsFirstKeyOnly(sec, data) ==
    IF BadKeys(sec, data) = {}
    THEN [k \in DOMAIN sec |-> IF k = "access" THEN data[k].val ELSE sec[k]]
    ELSE sec

fillUpSecretsAllKeys(sec, data) ==
    IF BadKeys(sec, data) = {}
    THEN [k \in DOMAIN data |-> data[k].val]
    ELSE sec

fillUpSecretsOnePass(sec, data) ==
    [k \in DOMAIN sec |-> IF k \in BadKeys(sec, data) THEN sec[k] ELSE data[k].val]

fillUpSecretsDropBad(sec, data) ==
    [k \in DOMAIN sec \ BadKeys(sec, data) |->
        IF BadKeys(sec, data) = {} THEN data[k].val ELSE sec[k]]

\* c.secrets after fillUpSecrets(data): the second loop runs only when the
\* first one rejected nothing.
fillUpSecrets(sec, data) ==
    IF BadKeys(sec, data) = {}
    THEN [k \in DOMAIN sec |-> data[k].val]
    ELSE sec

AfterOrEqual(t, u) == t >= u

\* time.Time.After
After(t, u) == t > u

NewExpiryNoTTL(t, ttl) == t

\* time.Now().Add(c.cfg.expiredTime)
NewExpiry(t, ttl) == t + ttl

RetrieveErrVerbatim(stage, e) == e

RetrieveErrSwapped(stage, e) ==
    IF stage = "provide" THEN ErrSecrets ELSE ErrConnectionToVault

\* The error Retrieve returns when the step `stage` failed with error e.
RetrieveErr(stage, e) ==
    IF stage = "provide" THEN ErrConnectionToVault ELSE ErrSecrets

\* credentials.Value as Retrieve builds it on success, and the zero value
\* it returns with an error.
Value(sec, c) ==
    [AccessKeyID |-> Lookup(sec, c.accessVaultKey),
     SecretAccessKey |-> Lookup(sec, c.secretVaultKey),
     ProviderName |-> VaultProviderName]
ZeroValue == [AccessKeyID |-> "", SecretAccessKey |-> "", ProviderName |-> ""]

CanLockUnguarded(w, r) == TRUE

\* sync.RWMutex: Lock succeeds when no writer and no reader holds the lock,
\* RLock when no writer holds it.
CanLock(w, r) == w = NoProc /\ r = 0
CanRLock(w, r) == w = NoProc

provideWhenExpired(n, t, exp) == IF After(t, exp) THEN n + 1 ELSE n

\* The reads the vault has been sent once Retrieve has called c.provide():
\* one more than the n before, whatever the time t and c.expairedFiredIn.
provide(n, t, exp) == n + 1

RUnlockOnFalseOnly(r, expired) == IF expired THEN r ELSE r - 1

\* The deferred c.RUnlock() of IsExpired: it runs when IsExpired returns,
\* whichever value (expired) it returns, and takes the caller off the holders
\* of the read lock.
RUnlock(r, expired) == r - 1

\* -------------------------------------------------------------------- state
VARIABLES
    cfg,              \* the VaultConfig the provider was built with
    secrets,          \* c.secrets
    expairedFiredIn,  \* c.expairedFiredIn
    writer,           \* the goroutine holding the RWMutex for writing, or NoProc
    readers,          \* the number of goroutines holding it for reading
    now,              \* time.Now()
    pc,               \* where each goroutine is
    calls,            \* the calls made so far
    call,             \* each goroutine's Retrieve call in progress
    last,             \* the call that returned in the step just taken, and what
                      \* it returned (NoLast after any other step)
    reads,            \* the reads that have reached the vault
    earlyReads,       \* those of them made by calls that started before the
                      \* vault answered its first read
    vault,            \* "unasked" until the vault answers a read, "healthy"
                      \* while every answer was a mapping Retrieve accepted
    failed,           \* a Retrieve has returned an error
    crashed           \* a panic has ended the program

vars == <<cfg, secrets, expairedFiredIn, writer, readers, now, pc, calls, call,
          last, reads, earlyReads, vault, failed, crashed>>

\* A Retrieve call in progress: when it started, whether it started before
\* the vault answered its first read, the read that was at the vault when it
\* started (0: none), and the read it made itself (0: none yet).
NoCall == [startedAt |-> 0, early |-> FALSE, joined |-> 0, readId |-> 0]

NoOutcome == [kind |-> "none", data |-> NoData]

NoLast ==
    [proc |-> NoProc, op |-> "none", err |-> NoErr, value |-> ZeroValue,
     expired |-> FALSE, outcome |-> NoOutcome, stepErr |-> NoErr,
     servedBy |-> 0, joined |-> 0, startedAt |-> 0, afterFailure |-> FALSE,
     replaced |-> FALSE]

\* The ids of the reads that are at the vault.
InFlight == {call[q].readId : q \in {r \in Procs : pc[r] = "r_read"}}

MaxOf(S) == CHOOSE x \in S : \A y \in S : y <= x

\* The configurations: two different names, or one name for both secrets.
Configs ==
    {[accessVaultKey |-> "access", secretVaultKey |-> "secret"],
     [accessVaultKey |-> "access", secretVaultKey |-> "access"]}

\* NewVaultConfigProvider, at time 0.
Init ==
    /\ cfg \in Configs
    /\ secrets = initSecrets(cfg)
    /\ now = 0
    /\ expairedFiredIn = NewExpiry(0, TTL)
    /\ writer = NoProc
    /\ readers = 0
    /\ pc = [p \in Procs |-> "idle"]
    /\ calls = 0
    /\ call = [p \in Procs |-> NoCall]
    /\ last = NoLast
    /\ reads = 0
    /\ earlyReads = 0
    /\ vault = "unasked"
    /\ failed = FALSE
    /\ crashed = FALSE

\* ----------------------------------------------------------------- Retrieve
\* A goroutine calls Retrieve and reaches c.Lock().
RetrieveCall(p) ==
    /\ ~crashed
    /\ pc[p] = "idle"
    /\ calls < MaxCalls
    /\ pc' = [pc EXCEPT ![p] = "r_lock"]
    /\ calls' = calls + 1
    /\ call' = [call EXCEPT ![p] =
            [startedAt |-> now,
             early |-> vault = "unasked",
             joined |-> IF InFlight = {} THEN 0 ELSE MaxOf(InFlight),
             readId |-> 0]]
    /\ last' = NoLast
    /\ UNCHANGED <<cfg, secrets, expairedFiredIn, writer, readers, now, reads,
                   earlyReads, vault, failed, crashed>>

\* c.Lock() returns and provide() sends the read to the vault.
RetrieveLock(p) ==
    /\ ~crashed
    /\ pc[p] = "r_lock"
    /\ CanLock(writer, readers)
    /\ writer' = p
    /\ reads' = provide(reads, now, expairedFiredIn)
    /\ earlyReads' = IF call[p].early THEN earlyReads + 1 ELSE earlyReads
    /\ call' = [call EXCEPT ![p].readId = reads']
    /\ pc' = [pc EXCEPT ![p] = "r_read"]
    /\ last' = NoLast
    /\ UNCHANGED <<cfg, secrets, expairedFiredIn, readers, now, calls,
                   vault, failed, crashed>>

\* The end of every Retrieve that returns, with the deferred c.Unlock():
\* the read gave outcome o, the failed step (if any) gave error e, and the
\* caller gets (v, err).
Returns(p, o, e, v, err) ==
    /\ writer' = NoProc
    /\ pc' = [pc EXCEPT ![p] = "idle"]
    /\ last' = [proc |-> p, op |-> "Retrieve", err |-> err, value |-> v,
                expired |-> FALSE, outcome |-> o, stepErr |-> e,
                servedBy |-> call[p].readId, joined |-> call[p].joined,
                startedAt |-> call[p].startedAt,
                afterFailure |-> failed,
                replaced |-> /\ err = NoErr
                             /\ secrets # initSecrets(cfg)
                             /\ v # Value(secrets, cfg)]
    /\ vault' = IF err = NoErr /\ vault # "unhealthy" THEN "healthy"
                 ELSE "unhealthy"
    /\ failed' = (failed \/ err # NoErr)
    /\ call' = [call EXCEPT ![p] = NoCall]
    /\ UNCHANGED <<cfg, readers, now, calls, reads, earlyReads, crashed>>

\* The read fails: Retrieve returns from its first error check.
RetrieveReadFails(p) ==
    /\ ~crashed
    /\ pc[p] = "r_read"
    /\ Returns(p, [kind |-> "err", data |-> NoData], SourceErr,
               ZeroValue, RetrieveErr("provide", SourceErr))
    /\ UNCHANGED <<secrets, expairedFiredIn>>

\* The read returns a nil secret and a nil error: data.Data in provide
\* dereferences nil.  The panic leaves Retrieve through the deferred Unlock
\* and goes up the caller's stack.
RetrieveReadNil(p) ==
    /\ ~crashed
    /\ pc[p] = "r_read"
    /\ writer' = NoProc
    /\ pc' = [pc EXCEPT ![p] = "panicked"]
    /\ vault' = "unhealthy"
    /\ last' = NoLast
    /\ call' = [call EXCEPT ![p] = NoCall]
    /\ UNCHANGED <<cfg, secrets, expairedFiredIn, readers, now, calls, reads,
                   earlyReads, failed, crashed>>

\* Nothing up the stack recovers the panic: the Go runtime ends the program.
Crash(p) ==
    /\ ~crashed
    /\ pc[p] = "panicked"
    /\ crashed' = TRUE
    /\ last' = NoLast
    /\ UNCHANGED <<cfg, secrets, expairedFiredIn, writer, readers, now, pc,
                   calls, call, reads, earlyReads, vault, failed>>

\* A deferred recover() of the caller stops the panic: the goroutine goes on
\* without a result of its call.
Recover(p) ==
    /\ ~crashed
    /\ pc[p] = "panicked"
    /\ pc' = [pc EXCEPT ![p] = "idle"]
    /\ last' = NoLast
    /\ UNCHANGED <<cfg, secrets, expairedFiredIn, writer, readers, now, calls,
                   call, reads, earlyReads, vault, failed, crashed>>

\* The read returns a mapping that fillUpSecrets rejects.
RetrieveBadSecrets(p) ==
    /\ ~crashed
    /\ pc[p] = "r_read"
    /\ \E m \in Mappings :
        /\ fillUpErrors(secrets, m) # {}
        /\ \E e \in fillUpErrors(secrets, m) :
            /\ secrets' = fillUpSecrets(secrets, m)
            /\ Returns(p, [kind |-> "data", data |-> m], e,
                       ZeroValue, RetrieveErr("fillUpSecrets", e))
    /\ UNCHANGED expairedFiredIn

\* The read returns a mapping that fillUpSecrets accepts.
RetrieveOk(p) ==
    /\ ~crashed
    /\ pc[p] = "r_read"
    /\ \E m \in Mappings :
        /\ fillUpErrors(secrets, m) = {}
        /\ secrets' = fillUpSecrets(secrets, m)
        /\ expairedFiredIn' = NewExpiry(now, TTL)
        /\ Returns(p, [kind |-> "data", data |-> m], NoErr,
                   Value(secrets', cfg), NoErr)

\* ---------------------------------------------------------------- IsExpired
\* A goroutine calls IsExpired and reaches c.RLock().
IsExpiredCall(p) ==
    /\ ~crashed
    /\ pc[p] = "idle"
    /\ calls < MaxCalls
    /\ pc' = [pc EXCEPT ![p] = "e_rlock"]
    /\ calls' = calls + 1
    /\ last' = NoLast
    /\ UNCHANGED <<cfg, secrets, expairedFiredIn, writer, readers, now, call,
                   reads, earlyReads, vault, failed, crashed>>

\* c.RLock() returns.
IsExpiredRLock(p) ==
    /\ ~crashed
    /\ pc[p] = "e_rlock"
    /\ CanRLock(writer, readers)
    /\ readers' = readers + 1
    /\ pc' = [pc EXCEPT ![p] = "e_check"]
    /\ last' = NoLast
    /\ UNCHANGED <<cfg, secrets, expairedFiredIn, writer, now, calls, call,
                   reads, earlyReads, vault, failed, crashed>>

\* The comparison, the return, and the deferred c.RUnlock().
IsExpiredReturn(p) ==
    /\ ~crashed
    /\ pc[p] = "e_check"
    /\ readers' = RUnlock(readers, After(now, expairedFiredIn))
    /\ pc' = [pc EXCEPT ![p] = "idle"]
    /\ last' = [NoLast EXCEPT !.proc = p, !.op = "IsExpired",
                              !.expired = After(now, expairedFiredIn)]
    /\ UNCHANGED <<cfg, secrets, expairedFiredIn, writer, now, calls, call,
                   reads, earlyReads, vault, failed, crashed>>

\* -------------------------------------------------------------------- clock
Tick ==
    /\ ~crashed
    /\ now < MaxTime
    /\ now' = now + 1
    /\ last' = NoLast
    /\ UNCHANGED <<cfg, secrets, expairedFiredIn, writer, readers, pc, calls,
                   call, reads, earlyReads, vault, failed, crashed>>

Next ==
    \/ \E p \in Procs : RetrieveCall(p)
    \/ \E p \in Procs : RetrieveLock(p)
    \/ \E p \in Procs : RetrieveReadFails(p)
    \/ \E p \in Procs : RetrieveReadNil(p)
    \/ \E p \in Procs : Crash(p)
    \/ \E p \in Procs : Recover(p)
    \/ \E p \in Procs : RetrieveBadSecrets(p)
    \/ \E p \in Procs : RetrieveOk(p)
    \/ \E p \in Procs : IsExpiredCall(p)
    \/ \E p \in Procs : IsExpiredRLock(p)
    \/ \E p \in Procs : IsExpiredReturn(p)
    \/ Tick

Spec == Init /\ [][Next]_vars

\* Every read is answered, a panic ends one way or the other, the RWMutex
\* (which hands the lock to a waiter that has waited long enough) lets every
\* waiter in, and a goroutine that holds the lock goes on.
FairSpec ==
    /\ Spec
    /\ \A p \in Procs :
        /\ SF_vars(RetrieveLock(p))
        /\ WF_vars(RetrieveReadFails(p) \/ RetrieveReadNil(p)
                        \/ RetrieveBadSecrets(p) \/ RetrieveOk(p))
        /\ WF_vars(Crash(p) \/ Recover(p))
        /\ SF_vars(IsExpiredRLock(p))
        /\ WF_vars(IsExpiredReturn(p))

\* ------------------------------------------------------------ observations
TrackedKeys == {cfg.accessVaultKey, cfg.secretVaultKey}

\* A mapping that lacks a configured key or holds a non-string value for it.
ShapeMismatch(m) ==
    \E k \in TrackedKeys : k \notin DOMAIN m \/ m[k].type # "string"

RetrieveReturned == last.op = "Retrieve"
RetrieveSucceeded == last.op = "Retrieve" /\ last.err = NoErr
RetrieveFailed == last.op = "Retrieve" /\ last.err # NoErr

\* Goroutine p takes a step of the operation whose positions are in S.
StepOf(p, S) == pc'[p] # pc[p] /\ (pc[p] \in S \/ pc'[p] \in S)

\* ------------------------------------------------------------------- claims
\* C1: while the vault answers every read with a good mapping (it is
\* reachable), among the Retrieve calls that start before the vault has
\* answered its first read (the calls issued concurrently) at most one sends
\* a read to the vault.
SingleFlight == vault # "unhealthy" => earlyReads <= 1

\* C2: a Retrieve call that started while another caller's read was at the
\* vault returns the outcome of that read, not of a later one.
SameCycle ==
    (RetrieveReturned /\ last.joined # 0) => last.servedBy = last.joined

\* C3: in every reachable state at most one read is at the vault, however
\* many callers are inside Retrieve.
AtMostOneRead == Cardinality({p \in Procs : pc[p] = "r_read"}) <= 1

\* C3 witness: a read is at the vault while another caller is inside
\* Retrieve, waiting for the lock.
AtMostOneReadWitness ==
    \E p, q \in Procs : p # q /\ pc[p] = "r_read" /\ pc[q] = "r_lock"

\* C4: no step of a Retrieve call that returns an error changes c.secrets or
\* c.expairedFiredIn: neither the call nor the acquisition of the lock, nor
\* the return with ErrConnectionToVault or ErrSecrets.
AtomicFailure ==
    [][/\ (\A p \in Procs : StepOf(p, {"r_lock"}) =>
                UNCHANGED <<secrets, expairedFiredIn>>)
       /\ (last'.op = "Retrieve" /\ last'.err # NoErr) =>
                UNCHANGED <<secrets, expairedFiredIn>>]_vars

\* C4 witness: a Retrieve has failed on a mapping that held a good new value
\* for one tracked key and none for another.
AtomicFailureWitness ==
    /\ RetrieveFailed
    /\ last.err = ErrSecrets
    /\ \E k \in DOMAIN secrets :
        /\ k \in DOMAIN last.outcome.data
        /\ last.outcome.data[k].type = "string"
        /\ last.outcome.data[k].val # secrets[k]

\* C5: c.expairedFiredIn never decreases, and a successful Retrieve leaves
\* it no earlier than the time the call started plus the TTL.
ExpiryMonotone ==
    [][/\ expairedFiredIn' >= expairedFiredIn
       /\ (last'.op = "Retrieve" /\ last'.err = NoErr) =>
                expairedFiredIn' >= last'.startedAt + TTL]_vars

\* C5 witness: a Retrieve that started before the last tick of the clock has
\* succeeded and moved c.expairedFiredIn past its initial value.
ExpiryMonotoneWitness ==
    /\ RetrieveSucceeded
    /\ now > last.startedAt
    /\ expairedFiredIn > TTL

\* C6: IsExpired returns true exactly when the time is strictly after
\* c.expairedFiredIn, and none of its steps changes c.secrets or
\* c.expairedFiredIn or sends a read to the vault.
IsExpiredPure ==
    [][\A p \in Procs : StepOf(p, {"e_rlock", "e_check"}) =>
            /\ UNCHANGED <<secrets, expairedFiredIn, reads, earlyReads>>
            /\ \A q \in Procs : pc'[q] # "r_read" \/ pc[q] = "r_read"
            /\ (pc[p] = "e_check" =>
                    /\ last'.op = "IsExpired"
                    /\ last'.expired = (now > expairedFiredIn))]_vars

\* C6 witness: IsExpired has returned true.
IsExpiredPureWitness == last.op = "IsExpired" /\ last.expired

\* C7: a Retrieve whose read failed returns ErrConnectionToVault, a Retrieve
\* whose read gave a mapping that lacks a configured key or holds a
\* non-string for it returns ErrSecrets, and these are the only calls that
\* return them; neither returns a nil error.
ErrorKinds ==
    RetrieveReturned =>
        /\ (last.outcome.kind = "err") <=> (last.err = ErrConnectionToVault)
        /\ (last.outcome.kind = "data" /\ ShapeMismatch(last.outcome.data))
                <=> (last.err = ErrSecrets)
        /\ (last.outcome.kind = "err" \/ ShapeMismatch(last.outcome.data))
                => last.err # NoErr

\* C7 witness: a Retrieve has returned ErrSecrets for a mapping that holds a
\* non-string value for a configured key.
ErrorKindsWitness ==
    /\ RetrieveReturned
    /\ last.err = ErrSecrets
    /\ \E k \in TrackedKeys :
        k \in DOMAIN last.outcome.data /\ last.outcome.data[k].type # "string"

\* C8 as stated: the error a failed Retrieve returns is the error the failed
\* step produced.
ErrorsVerbatim == RetrieveFailed => last.err = last.stepErr

\* C8 as amended: the error a failed Retrieve returns is never the error the
\* failed step produced but a fixed value that names no key:
\* ErrConnectionToVault in place of the vault client's error, ErrSecrets in
\* place of the error of fillUpSecrets that names the rejected key.
ErrorsReplaced ==
    (RetrieveReturned /\ last.stepErr # NoErr) =>
        /\ last.err # last.stepErr
        /\ last.err.key = ""
        /\ (last.stepErr = SourceErr => last.err = ErrConnectionToVault)
        /\ (last.stepErr.key # "" =>
                /\ last.err = ErrSecrets
                /\ last.stepErr.key \in TrackedKeys)

\* C8 witness: fillUpSecrets has named the configured secret key in its
\* error and Retrieve has returned ErrSecrets.
ErrorsReplacedWitness ==
    /\ RetrieveFailed
    /\ last.stepErr.key = cfg.secretVaultKey
    /\ last.err = ErrSecrets

\* C9: every Retrieve call returns, and when no goroutine is inside a call
\* the lock is free.
NoLeak ==
    /\ \A p \in Procs : (pc[p] \in {"r_lock", "r_read"}) ~> (pc[p] = "idle")
    /\ []((\A p \in Procs : pc[p] = "idle") => (writer = NoProc /\ readers = 0))

\* C10: whatever failed before, a Retrieve whose read gives a mapping with
\* string values for the configured keys returns no error and those values.
Recoverable ==
    (RetrieveReturned /\ last.outcome.kind = "data"
                      /\ ~ShapeMismatch(last.outcome.data)) =>
        /\ last.err = NoErr
        /\ last.value.AccessKeyID = last.outcome.data[cfg.accessVaultKey].val
        /\ last.value.SecretAccessKey = last.outcome.data[cfg.secretVaultKey].val
        /\ last.value.ProviderName = VaultProviderName

\* C10 witness: a Retrieve has succeeded after an earlier Retrieve failed.
RecoverableWitness == RetrieveSucceeded /\ last.afterFailure

\* C11: a Retrieve that returns no error has made a read of its own, and the
\* two values it returns are those of the mapping that read gave, which is
\* merged into c.secrets when the call returns; every Retrieve that returns,
\* the first one on a fresh provider included, has made a read.
NeverInitialValues ==
    /\ RetrieveReturned => (last.servedBy # 0 /\ last.servedBy <= reads)
    /\ RetrieveSucceeded =>
        /\ last.outcome.kind = "data"
        /\ \A k \in TrackedKeys :
            /\ k \in DOMAIN last.outcome.data
            /\ last.outcome.data[k].type = "string"
            /\ secrets[k] = last.outcome.data[k].val
        /\ last.value.AccessKeyID = secrets[cfg.accessVaultKey]
        /\ last.value.SecretAccessKey = secrets[cfg.secretVaultKey]

\* C11 witness: the first Retrieve on a fresh provider has returned the
\* values of the first read.
NeverInitialValuesWitness ==
    /\ RetrieveSucceeded
    /\ last.servedBy = 1
    /\ last.value.AccessKeyID # ""
    /\ last.value.SecretAccessKey # ""

\* C12: fillUpSecrets is all or nothing.  When the mapping of a read holds a
\* string for every key of c.secrets, every value of c.secrets becomes the
\* mapping's and fillUpSecrets returns nil; otherwise it returns an error
\* and c.secrets is what it was, whatever good values the mapping held.
AllOrNothing ==
    [][(last'.op = "Retrieve" /\ last'.outcome.kind = "data") =>
            LET m == last'.outcome.data
                good == {k \in DOMAIN secrets :
                            k \in DOMAIN m /\ m[k].type = "string"}
            IN  IF good = DOMAIN secrets
                THEN /\ last'.stepErr = NoErr
                     /\ secrets' = [k \in DOMAIN secrets |-> m[k].val]
                ELSE /\ last'.stepErr # NoErr
                     /\ secrets' = secrets]_vars

\* C12 witness: fillUpSecrets has rejected a mapping that held a string for
\* one tracked key and a non-string for another.
AllOrNothingWitness ==
    /\ RetrieveFailed
    /\ last.outcome.kind = "data"
    /\ \E k, j \in DOMAIN secrets :
        /\ k \in DOMAIN last.outcome.data
        /\ j \in DOMAIN last.outcome.data
        /\ last.outcome.data[k].type = "string"
        /\ last.outcome.data[j].type # "string"

\* C13: the keys of c.secrets are the two configured names in every state.
KeySetFixed == DOMAIN secrets = TrackedKeys

\* C13 witness: a Retrieve has merged a mapping that holds a key the provider
\* does not track.
KeySetFixedWitness ==
    RetrieveSucceeded /\ OtherKey \in DOMAIN last.outcome.data

\* C14: a read that gives no secret and no error ends Retrieve with
\* ErrConnectionToVault as an ordinary return: no goroutine is ever in a
\* panic, and the program never ends by one.
NoDataIsAnError ==
    /\ ~crashed
    /\ \A p \in Procs : pc[p] # "panicked"
    /\ (RetrieveReturned /\ last.outcome.kind = "nil") =>
            last.err = ErrConnectionToVault

\* C15: no goroutine holds the lock of the provider while a read is in
\* flight.
ReadOutsideLock ==
    (\E p \in Procs : pc[p] = "r_read") => (writer = NoProc /\ readers = 0)

\* C16: the holders of the read lock are exactly the goroutines inside
\* IsExpired: a call that has returned, true or false, holds it no more, so
\* that a Retrieve waiting for the write lock gets it once no goroutine is
\* inside IsExpired or Retrieve.
ReadLockReleased ==
    /\ readers = Cardinality({p \in Procs : pc[p] = "e_check"})
    /\ \A p \in Procs :
        (/\ pc[p] = "r_lock"
         /\ \A q \in Procs : pc[q] \notin {"e_check", "r_read"})
            => CanLock(writer, readers)

\* C16 witness: IsExpired has returned true while a Retrieve waits for the
\* write lock, and the lock is free for it.
ReadLockReleasedWitness ==
    /\ last.op = "IsExpired"
    /\ last.expired
    /\ \E p \in Procs : pc[p] = "r_lock"
    /\ \A q \in Procs : pc[q] \notin {"e_check", "r_read"}
    /\ CanLock(writer, readers)

\* The two values are those one response of the vault holds.
FromOneResponse(a, b) ==
    \E g \in Gens : /\ a = ValueOf(cfg.accessVaultKey, g)
                    /\ b = ValueOf(cfg.secretVaultKey, g)

\* C17: the access key and the secret key a successful Retrieve returns are
\* those of one response, and so are the two c.secrets holds once a response
\* has been merged, however the Retrieve calls interleave.
NeverTorn ==
    /\ RetrieveSucceeded =>
            FromOneResponse(last.value.AccessKeyID, last.value.SecretAccessKey)
    /\ \/ secrets = initSecrets(cfg)
       \/ FromOneResponse(secrets[cfg.accessVaultKey],
                          secrets[cfg.secretVaultKey])

\* C17 witness: a Retrieve that was called while another one's read was at
\* the vault has returned a pair that differs from the pair the other one
\* had stored.
NeverTornWitness ==
    RetrieveSucceeded /\ last.joined # 0 /\ last.replaced

\* C18: a Retrieve never returns without a read, and it makes exactly one:
\* a call that has the lock goes to the vault, c.expairedFiredIn expired or
\* not, and the number of reads changes at no other step.
AlwaysOneRead ==
    [][/\ \A p \in Procs :
            /\ pc[p] = "r_lock" => pc'[p] \in {"r_lock", "r_read"}
            /\ (pc[p] = "r_lock" /\ pc'[p] = "r_read") => reads' = reads + 1
            /\ pc'[p] = "r_read" => call'[p].readId # 0
       /\ reads' # reads =>
            \E p \in Procs : pc[p] = "r_lock" /\ pc'[p] = "r_read"]_vars

\* C18 witness: after a Retrieve has stored credentials that have not
\* expired, a Retrieve called with no read in flight has its own read at the
\* vault.
AlwaysOneReadWitness ==
    /\ vault = "healthy"
    /\ ~After(now, expairedFiredIn)
    /\ \E p \in Procs :
        /\ pc[p] = "r_read"
        /\ call[p].joined = 0
        /\ call[p].readId = 2

\* C19: until a Retrieve has the lock, c.expairedFiredIn is the time of
\* construction plus the TTL and every value of c.secrets is the empty
\* string, so an IsExpired that returns then tells whether the TTL has
\* elapsed since construction.
FreshProvider ==
    reads = 0 =>
        /\ expairedFiredIn = 0 + TTL
        /\ secrets = [k \in TrackedKeys |-> ""]
        /\ last.op = "IsExpired" => (last.expired <=> now > TTL)

\* C19 witness: before any Retrieve, IsExpired has returned false at the
\* very end of the TTL.
FreshProviderWitness ==
    /\ reads = 0
    /\ calls = 1
    /\ last.op = "IsExpired"
    /\ ~last.expired
    /\ now = TTL

====
